---- MODULE Spec2Model ----
(***************************************************************************)
(* lib/sqlalchemy/orm/events.py: the five ORM event classes                *)
(* (InstrumentationEvents, InstanceEvents, MapperEvents, SessionEvents,    *)
(* AttributeEvents), their listen/remove classmethods and the wrapper      *)
(* closures that listen builds around a user function.                     *)
(*                                                                         *)
(* Two specifications share the definitions:                               *)
(*   Spec          sequences of listen / remove calls and of class         *)
(*                 instrumentation (which listener lands on which target); *)
(*   SpecDispatch  one listen call followed by one dispatch of the event   *)
(*                 to a listener that call registered (what the wrapper    *)
(*                 hands to the user function and returns);                *)
(*   SpecAccept    event.listen calls on targets as the user gives them:   *)
(*                 accept_with resolves the target, listen registers.      *)
(***************************************************************************)
EXTENDS Integers, Sequences, FiniteSets, TLC

VARIABLES
    listeners,     \* target -> sequence of registrations made by event.Events.listen
    instrumented,  \* the classes that have a ClassManager / Mapper so far
    calls,         \* history: the listen calls made so far, in order
    last,          \* outcome of the most recent operation
    active_history,\* attribute target -> its dispatch.active_history flag
    pc,            \* SpecDispatch: "idle" -> "registered" -> "fired"
    inv,           \* SpecDispatch: the dispatch that was made, and its outcome
    accepts        \* SpecAccept, history: the event.listen calls and what accept_with gave

vars == <<listeners, instrumented, calls, active_history, last, pc, inv, accepts>>

\* Bound on the number of listen calls in a behaviour of Spec.
MaxListens == 2

(***************************************************************************)
(* Values handed around at dispatch time.                                  *)
(***************************************************************************)
Val(k, i) == [kind |-> k, id |-> i]

None == Val("symbol", "None")

EXT_CONTINUE == Val("symbol", "EXT_CONTINUE")

EXT_STOP == Val("symbol", "EXT_STOP")

\* An InstanceState for the object o, and the mapped instance it manages.
InstanceState(o) == Val("state", o)

Instance(o) == Val("instance", o)

Objects == {"o1", "o2"}

\* state.obj(): only an InstanceState has it.
HasObj(v) == v.kind = "state"

obj(v) == Instance(v.id)

(***************************************************************************)
(* The mapped class hierarchy: A is the base, B(A), C(B).                  *)
(***************************************************************************)
Classes == {"A", "B", "C"}

Bases == [A |-> {}, B |-> {"A"}, C |-> {"B"}]

RECURSIVE Ancestors(_)
Ancestors(c) == Bases[c] \cup UNION {Ancestors(b) : b \in Bases[c]}

Keys == {"x", "y"}

Fns == {"f", "g"}

\* Listen targets, after event.listen resolved them with accept_with.
Target(k, c, key) == [kind |-> k, class_ |-> c, key |-> key]

Registry == Target("registry", "", "")

Manager(c) == Target("manager", c, "")

Mapper(c) == Target("mapper", c, "")

Attribute(c, key) == Target("attribute", c, key)

\* The Session class (listeners for all sessions).
Session == Target("session", "", "")

\* A class given by name: a mapped class, "U" (a class that is never mapped),
\* "type", "Mapper", "MyMapper" (a subclass of Mapper), "ClassManager",
\* "ScopedSession".
Class(name) == Target("class", name, "")

\* The class that sessionmaker() returns: a subclass of Session.
SessionSubclass == Target("session", "Sess", "")

\* An instance of Session (cls = "") or of the sessionmaker() class (cls = "Sess").
SessionInstance(cls) == Target("session_instance", cls, "")

\* The targets that carry listener collections.
Targets ==
    {Registry, Session} \cup {Manager(c) : c \in Classes} \cup {Mapper(c) : c \in Classes}
        \cup {Attribute(c, k) : c \in Classes, k \in Keys}
        \cup {Class("ClassManager"), Class("Mapper"), Class("MyMapper"), SessionSubclass,
              SessionInstance(""), SessionInstance("Sess")}

\* ClassManager.subclass_managers(recursive) over the classes instrumented now.
subclass_managers(mgr, recursive) ==
    {Manager(c) : c \in {d \in instrumented :
        IF recursive THEN mgr.class_ \in Ancestors(d) ELSE mgr.class_ \in Bases[d]}}

\* Mapper.self_and_descendants over the classes mapped now.
self_and_descendants(mapper) ==
    {mapper} \cup {Mapper(c) : c \in {d \in instrumented : mapper.class_ \in Ancestors(d)}}

\* manager_of_class(class_)
manager_of_class(c) == Manager(c)

(***************************************************************************)
(* Hook signatures: inspect.getargspec(meth)[0], "self" included.          *)
(***************************************************************************)
InstrumentationSig ==
    [on_class_instrument     |-> <<"self", "cls">>,
     on_class_uninstrument   |-> <<"self", "cls">>,
     on_attribute_instrument |-> <<"self", "cls", "key", "inst">>]

InstanceSig ==
    [on_first_init   |-> <<"self", "manager", "cls">>,
     on_init         |-> <<"self", "target", "args", "kwargs">>,
     on_init_failure |-> <<"self", "target", "args", "kwargs">>,
     on_load         |-> <<"self", "target">>,
     on_resurrect    |-> <<"self", "target">>]

MapperSig ==
    [on_instrument_class  |-> <<"self", "mapper", "class_">>,
     on_translate_row     |-> <<"self", "mapper", "context", "row">>,
     on_create_instance   |-> <<"self", "mapper", "context", "row", "class_">>,
     on_append_result     |-> <<"self", "mapper", "context", "row", "target", "result">>,
     on_populate_instance |-> <<"self", "mapper", "context", "row", "target">>,
     on_before_insert     |-> <<"self", "mapper", "connection", "target">>,
     on_after_insert      |-> <<"self", "mapper", "connection", "target">>,
     on_before_update     |-> <<"self", "mapper", "connection", "target">>,
     on_after_update      |-> <<"self", "mapper", "connection", "target">>,
     on_before_delete     |-> <<"self", "mapper", "connection", "target">>,
     on_after_delete      |-> <<"self", "mapper", "connection", "target">>]

AttributeSig ==
    [on_append |-> <<"self", "target", "value", "initiator">>,
     on_remove |-> <<"self", "target", "value", "initiator">>,
     on_set    |-> <<"self", "target", "value", "oldvalue", "initiator">>]

SessionSig ==
    [on_before_commit        |-> <<"self", "session">>,
     on_after_commit         |-> <<"self", "session">>,
     on_after_rollback       |-> <<"self", "session">>,
     on_before_flush         |-> <<"self", "session", "flush_context", "instances">>,
     on_after_flush          |-> <<"self", "session", "flush_context">>,
     on_after_flush_postexec |-> <<"self", "session", "flush_context">>,
     on_after_begin          |-> <<"self", "session", "transaction", "connection">>,
     on_after_attach         |-> <<"self", "session", "instance">>,
     on_after_bulk_update    |-> <<"self", "session", "query", "query_context", "result">>,
     on_after_bulk_delete    |-> <<"self", "session", "query", "query_context", "result">>]

\* The hooks declared with **flags.
HasFlags == {"on_append_result", "on_populate_instance"}

EventClasses ==
    {"InstrumentationEvents", "InstanceEvents", "MapperEvents",
     "SessionEvents", "AttributeEvents"}

Sig(cls) ==
    CASE cls = "InstrumentationEvents" -> InstrumentationSig
      [] cls = "InstanceEvents"        -> InstanceSig
      [] cls = "MapperEvents"          -> MapperSig
      [] cls = "SessionEvents"         -> SessionSig
      [] cls = "AttributeEvents"       -> AttributeSig

Range(s) == {s[i] : i \in DOMAIN s}

\* list.index(x): the first position of x (1-based); only asked when x occurs.
Index(s, x) == CHOOSE i \in DOMAIN s : s[i] = x /\ \A j \in 1..(i - 1) : s[j] # x

(***************************************************************************)
(* The callable that listen registers: the user function itself, or a      *)
(* closure "wrap" around it.  A closure is a new object on every listen    *)
(* call (closure = the number of the call); the fields a closure does not  *)
(* capture hold a fixed filler.  target_index is the 1-based position in   *)
(* *arg, 0 for Python's None.                                              *)
(***************************************************************************)
Plain(fn) ==
    [wrap |-> "none", fn |-> fn, raw |-> TRUE, retval |-> TRUE,
     target_index |-> 0, closure |-> 0]

\* How a user function behaves when called: it raises, or returns a value.
UserReturns == {None, EXT_CONTINUE, EXT_STOP, Val("other", "result"), Val("arg", "value")}

Behaviours ==
    {[raises |-> FALSE, ret |-> r] : r \in UserReturns}
        \cup {[raises |-> TRUE, ret |-> None]}

\* The user function called with (*arg, **kw).
UserCall(arg, kw, beh) ==
    [ncalls |-> 1, received |-> arg, kw |-> kw,
     raised |-> IF beh.raises THEN "ValueError" ELSE "none",
     ret |-> IF beh.raises THEN None ELSE beh.ret]

\* The wrapper raised before it reached the user function.
Failed(exc) ==
    [ncalls |-> 0, received |-> <<>>, kw |-> {}, raised |-> exc, ret |-> None]

\* Faulty variant: the wrapper forgets state.obj() and passes the state on.
InstanceWrap_PassesState(l, arg, kw, beh) == UserCall(arg, kw, beh)

\* InstanceEvents.listen: def wrap(state, *arg, **kw)
InstanceWrap(l, arg, kw, beh) ==
    IF ~HasObj(arg[1])
        THEN Failed("AttributeError")
        ELSE UserCall(<<obj(arg[1])>> \o Tail(arg), kw, beh)

\* Faulty variant: the wrapper returns the user function's value also without retval.
MapperWrap_ReturnsUser(l, arg, kw, beh) ==
    LET unwrap == ~l.raw /\ l.target_index # 0
    IN  UserCall(IF unwrap THEN [arg EXCEPT ![l.target_index] = obj(@)] ELSE arg, kw, beh)

\* Faulty variant: the wrapper returns EXT_CONTINUE also with retval.
MapperWrap_AlwaysContinue(l, arg, kw, beh) ==
    LET unwrap == ~l.raw /\ l.target_index # 0
        r == UserCall(IF unwrap THEN [arg EXCEPT ![l.target_index] = obj(@)] ELSE arg,
                      kw, beh)
    IN  IF r.raised = "none" THEN [r EXCEPT !.ret = EXT_CONTINUE] ELSE r

\* MapperEvents.listen: def wrap(*arg, **kw)
MapperWrap(l, arg, kw, beh) ==
    LET unwrap == ~l.raw /\ l.target_index # 0
    IN  IF unwrap /\ l.target_index > Len(arg)
            THEN Failed("IndexError")
        ELSE IF unwrap /\ ~HasObj(arg[l.target_index])
            THEN Failed("AttributeError")
            ELSE LET arg2 == IF unwrap
                                THEN [arg EXCEPT ![l.target_index] = obj(@)]
                                ELSE arg
                     r == UserCall(arg2, kw, beh)
                 IN  IF ~l.retval /\ r.raised = "none"
                        THEN [r EXCEPT !.ret = EXT_CONTINUE]
                        ELSE r

\* Faulty variant: the wrapper returns the user function's value also without retval.
AttributeWrap_ReturnsUser(l, arg, kw, beh) ==
    UserCall(<<IF ~l.raw THEN obj(arg[1]) ELSE arg[1]>> \o Tail(arg), {}, beh)

\* Faulty variant: without retval the wrapper swallows what the user function raises.
AttributeWrap_Swallows(l, arg, kw, beh) ==
    LET r == UserCall(<<IF ~l.raw THEN obj(arg[1]) ELSE arg[1]>> \o Tail(arg), {}, beh)
    IN  IF ~l.retval THEN [r EXCEPT !.ret = arg[2], !.raised = "none"] ELSE r

\* AttributeEvents.listen: def wrap(target, value, *arg)
AttributeWrap(l, arg, kw, beh) ==
    IF kw # {} \/ Len(arg) < 2
        THEN Failed("TypeError")
        ELSE IF ~l.raw /\ ~HasObj(arg[1])
            THEN Failed("AttributeError")
            ELSE LET target == IF ~l.raw THEN obj(arg[1]) ELSE arg[1]
                     value == arg[2]
                     r == UserCall(<<target, value>> \o SubSeq(arg, 3, Len(arg)), {}, beh)
                 IN  IF ~l.retval /\ r.raised = "none"
                        THEN [r EXCEPT !.ret = value]
                        ELSE r

\* Calling a registered listener with (*arg, **kw).
Apply(l, arg, kw, beh) ==
    CASE l.wrap = "none"      -> UserCall(arg, kw, beh)
      [] l.wrap = "instance"  -> InstanceWrap(l, arg, kw, beh)
      [] l.wrap = "mapper"    -> MapperWrap(l, arg, kw, beh)
      [] l.wrap = "attribute" -> AttributeWrap(l, arg, kw, beh)

\* InstanceEvents.listen: "if not raw: ... fn = wrap"
InstanceListener(fn, raw, n) ==
    IF ~raw
        THEN [wrap |-> "instance", fn |-> fn, raw |-> FALSE, retval |-> TRUE,
              target_index |-> 0, closure |-> n]
        ELSE Plain(fn)

\* Faulty variant: the index is not corrected for "self".
target_index_WithSelf(identifier) ==
    IF "target" \in Range(MapperSig[identifier])
        THEN Index(MapperSig[identifier], "target")
        ELSE 0

\* MapperEvents.listen: inspect.getargspec(meth)[0].index('target') - 1, or None
target_index(identifier) ==
    IF "target" \in Range(MapperSig[identifier])
        THEN Index(MapperSig[identifier], "target") - 1
        ELSE 0

\* MapperEvents.listen: "if not raw or not retval: ... fn = wrap"
MapperListener(identifier, fn, raw, retval, n) ==
    IF ~raw \/ ~retval
        THEN [wrap |-> "mapper", fn |-> fn, raw |-> raw, retval |-> retval,
              target_index |-> IF ~raw THEN target_index(identifier) ELSE 0,
              closure |-> n]
        ELSE Plain(fn)

\* AttributeEvents.listen: "if not raw or not retval: ... fn = wrap"
AttributeListener(fn, raw, retval, n) ==
    IF ~raw \/ ~retval
        THEN [wrap |-> "attribute", fn |-> fn, raw |-> raw, retval |-> retval,
              target_index |-> 0, closure |-> n]
        ELSE Plain(fn)

(***************************************************************************)
(* event.Events.listen(target, identifier, fn, propagate): the host event  *)
(* bus appends the registration to the target's collection.  "call" is     *)
(* history: the listen call of this module that made the registration.     *)
(***************************************************************************)
Registration(identifier, fn, propagate, n) ==
    [identifier |-> identifier, fn |-> fn, propagate |-> propagate, call |-> n]

EventsListen(L, target, identifier, fn, propagate, n) ==
    [L EXCEPT ![target] = Append(@, Registration(identifier, fn, propagate, n))]

\* "for t in ts: event.Events.listen(t, identifier, fn, propagate)"
EventsListenEach(L, ts, identifier, fn, propagate, n) ==
    [t \in DOMAIN L |->
        IF t \in ts THEN Append(L[t], Registration(identifier, fn, propagate, n))
                    ELSE L[t]]

\* The record of a listen call kept in calls (history).
Call(cls, target, identifier, fn, raw, retval, propagate) ==
    [cls |-> cls, target |-> target, identifier |-> identifier, fn |-> fn,
     raw |-> raw, retval |-> retval, propagate |-> propagate, at |-> instrumented,
     active_history |-> FALSE]

Outcome(op, cls, raised, registered) ==
    [op |-> op, cls |-> cls, raised |-> raised, registered |-> registered]

(***************************************************************************)
(* The listen classmethods.                                                *)
(***************************************************************************)
\* InstrumentationEvents.listen(target, identifier, fn, propagate=False)
InstrumentationListen(target, identifier, fn, propagate) ==
    LET n == Len(calls) + 1
    IN  /\ listeners' = EventsListen(listeners, target, identifier, Plain(fn), propagate, n)
        /\ calls' = Append(calls,
                Call("InstrumentationEvents", target, identifier, fn, TRUE, TRUE, propagate))
        /\ last' = Outcome("listen", "InstrumentationEvents", "none", FALSE)
        /\ UNCHANGED <<instrumented, active_history>>

\* Faulty variant: propagation stops at the direct subclasses.
InstanceListen_DirectSubclasses(target, identifier, fn, raw, propagate) ==
    LET n == Len(calls) + 1
        l == InstanceListener(fn, raw, n)
        L1 == EventsListen(listeners, target, identifier, l, propagate, n)
    IN  /\ listeners' =
               IF propagate
                   THEN EventsListenEach(L1, subclass_managers(target, FALSE),
                                         identifier, l, TRUE, n)
                   ELSE L1
        /\ calls' = Append(calls,
                Call("InstanceEvents", target, identifier, fn, raw, TRUE, propagate))
        /\ last' = Outcome("listen", "InstanceEvents", "none", FALSE)
        /\ UNCHANGED <<instrumented, active_history>>

\* InstanceEvents.listen(target, identifier, fn, raw=False, propagate=False)
InstanceListen(target, identifier, fn, raw, propagate) ==
    LET n == Len(calls) + 1
        l == InstanceListener(fn, raw, n)
        L1 == EventsListen(listeners, target, identifier, l, propagate, n)
    IN  /\ listeners' =
               IF propagate
                   THEN EventsListenEach(L1, subclass_managers(target, TRUE),
                                         identifier, l, TRUE, n)
                   ELSE L1
        /\ calls' = Append(calls,
                Call("InstanceEvents", target, identifier, fn, raw, TRUE, propagate))
        /\ last' = Outcome("listen", "InstanceEvents", "none", FALSE)
        /\ UNCHANGED <<instrumented, active_history>>

\* Faulty variant: the target is listened on before the loop over self_and_descendants too.
MapperListen_TargetTwice(target, identifier, fn, raw, retval, propagate) ==
    LET n == Len(calls) + 1
        l == MapperListener(identifier, fn, raw, retval, n)
        L1 == EventsListen(listeners, target, identifier, l, propagate, n)
    IN  /\ listeners' =
               IF propagate
                   THEN EventsListenEach(L1, self_and_descendants(target),
                                         identifier, l, TRUE, n)
                   ELSE L1
        /\ calls' = Append(calls,
                Call("MapperEvents", target, identifier, fn, raw, retval, propagate))
        /\ last' = Outcome("listen", "MapperEvents", "none", FALSE)
        /\ UNCHANGED <<instrumented, active_history>>

\* Faulty variant: the new registration replaces what the target held.
MapperListen_Replaces(target, identifier, fn, raw, retval, propagate) ==
    LET n == Len(calls) + 1
        l == MapperListener(identifier, fn, raw, retval, n)
    IN  /\ listeners' =
               IF propagate
                   THEN EventsListenEach(listeners, self_and_descendants(target),
                                         identifier, l, TRUE, n)
                   ELSE [listeners EXCEPT ![target] = <<Registration(identifier, l, FALSE, n)>>]
        /\ calls' = Append(calls,
                Call("MapperEvents", target, identifier, fn, raw, retval, propagate))
        /\ last' = Outcome("listen", "MapperEvents", "none", FALSE)
        /\ UNCHANGED <<instrumented, active_history>>

\* MapperEvents.listen(target, identifier, fn, raw=False, retval=False, propagate=False)
MapperListen(target, identifier, fn, raw, retval, propagate) ==
    LET n == Len(calls) + 1
        l == MapperListener(identifier, fn, raw, retval, n)
    IN  /\ listeners' =
               IF propagate
                   THEN EventsListenEach(listeners, self_and_descendants(target),
                                         identifier, l, TRUE, n)
                   ELSE EventsListen(listeners, target, identifier, l, FALSE, n)
        /\ calls' = Append(calls,
                Call("MapperEvents", target, identifier, fn, raw, retval, propagate))
        /\ last' = Outcome("listen", "MapperEvents", "none", FALSE)
        /\ UNCHANGED <<instrumented, active_history>>

\* Faulty variant: the flag is assigned from the argument, so False resets it.
AttributeListen_AssignsHistory(target, identifier, fn, ah, raw, retval, propagate) ==
    LET n == Len(calls) + 1
        l == AttributeListener(fn, raw, retval, n)
        L1 == EventsListen(listeners, target, identifier, l, propagate, n)
        manager == manager_of_class(target.class_)
    IN  /\ active_history' = [active_history EXCEPT ![target] = ah]
        /\ listeners' =
               IF propagate
                   THEN EventsListenEach(L1,
                            {Attribute(mgr.class_, target.key) :
                                mgr \in subclass_managers(manager, TRUE)},
                            identifier, l, TRUE, n)
                   ELSE L1
        /\ calls' = Append(calls,
                [Call("AttributeEvents", target, identifier, fn, raw, retval, propagate)
                    EXCEPT !.active_history = ah])
        /\ last' = Outcome("listen", "AttributeEvents", "none", FALSE)
        /\ UNCHANGED instrumented

\* AttributeEvents.listen(target, identifier, fn, active_history=False,
\*                        raw=False, retval=False, propagate=False)
AttributeListen(target, identifier, fn, ah, raw, retval, propagate) ==
    LET n == Len(calls) + 1
        l == AttributeListener(fn, raw, retval, n)
        L1 == EventsListen(listeners, target, identifier, l, propagate, n)
        manager == manager_of_class(target.class_)
    IN  /\ active_history' =
               IF ah THEN [active_history EXCEPT ![target] = TRUE] ELSE active_history
        /\ listeners' =
               IF propagate
                   THEN EventsListenEach(L1,
                            {Attribute(mgr.class_, target.key) :
                                mgr \in subclass_managers(manager, TRUE)},
                            identifier, l, TRUE, n)
                   ELSE L1
        /\ calls' = Append(calls,
                [Call("AttributeEvents", target, identifier, fn, raw, retval, propagate)
                    EXCEPT !.active_history = ah])
        /\ last' = Outcome("listen", "AttributeEvents", "none", FALSE)
        /\ UNCHANGED instrumented

\* Faulty variant: remove takes the function off the target's collection and returns.
Remove_Deletes(cls, identifier, target, fn) ==
    /\ last' = Outcome("remove", cls, "none",
                       \E i \in DOMAIN listeners[target] : listeners[target][i].fn.fn = fn)
    /\ listeners' = [listeners EXCEPT ![target] = SelectSeq(@, LAMBDA e : e.fn.fn # fn)]
    /\ UNCHANGED <<instrumented, calls, active_history>>

\* remove(identifier, target, fn) of each of the five classes:
\* raise NotImplementedError(...)
Remove(cls, identifier, target, fn) ==
    /\ last' = Outcome("remove", cls, "NotImplementedError",
                       \E i \in DOMAIN listeners[target] : listeners[target][i].fn.fn = fn)
    /\ UNCHANGED <<listeners, instrumented, calls, active_history>>

\* The host instruments (and maps) a further class whose bases are instrumented.
Instrument(c) ==
    /\ c \notin instrumented
    /\ Bases[c] \subseteq instrumented
    /\ instrumented' = instrumented \cup {c}
    /\ last' = Outcome("instrument", "", "none", FALSE)
    /\ UNCHANGED <<listeners, calls, active_history>>

\* SessionEvents defines no listen of its own: event.Events.listen is inherited.
SessionListen(target, identifier, fn, propagate) ==
    LET n == Len(calls) + 1
    IN  /\ listeners' = EventsListen(listeners, target, identifier, Plain(fn), propagate, n)
        /\ calls' = Append(calls,
                Call("SessionEvents", target, identifier, fn, TRUE, TRUE, propagate))
        /\ last' = Outcome("listen", "SessionEvents", "none", FALSE)
        /\ UNCHANGED <<instrumented, active_history>>

(***************************************************************************)
(* accept_with: what the user hands to event.listen, and the target it is  *)
(* resolved to.                                                            *)
(***************************************************************************)
\* The mapper() function.
MapperFunction == Target("function", "mapper", "")

\* A ScopedSession whose session_factory is the Session class ("Session"), the
\* sessionmaker() class ("Sess"), the class U ("U") or a callable that is no
\* class ("callable").
ScopedSession(factory) == Target("scoped_session", "", factory)

\* Any other object (a string, an unrelated instance).
SomeObject == Target("object", "", "")

\* accept_with returning None.
NotAccepted == Target("None", "", "")

session_factory(g) ==
    CASE g.key = "Session"  -> Session
      [] g.key = "Sess"     -> SessionSubclass
      [] g.key = "U"        -> Class("U")
      [] g.key = "callable" -> Target("function", "factory", "")

\* isinstance(g, type)
IsType(g) == g.kind \in {"class", "session"}

\* issubclass(g, Mapper), issubclass(g, Session), issubclass(g, ScopedSession)
IsMapperClass(g) == g.kind = "class" /\ g.class_ \in {"Mapper", "MyMapper"}

IsSessionClass(g) == g.kind = "session"

IsScopedSessionClass(g) == g = Class("ScopedSession")

Returned(t) == [raised |-> "none", target |-> t]

Raised(exc) == [raised |-> exc, target |-> NotAccepted]

\* class_mapper(class_): the mapper of a mapped class; it raises for any other.
class_mapper(g) ==
    IF g.kind = "class" /\ g.class_ \in instrumented
        THEN Returned(Mapper(g.class_))
        ELSE Raised("UnmappedClassError")

\* Faulty variant: a class that has a manager resolves to its own manager.
InstrumentationAcceptWith_PerClass(g) ==
    IF IsType(g)
        THEN IF g.kind = "class" /\ g.class_ \in instrumented
                THEN Returned(manager_of_class(g.class_))
                ELSE Returned(Registry)
        ELSE Returned(NotAccepted)

\* InstrumentationEvents.accept_with(target)
InstrumentationAcceptWith(g) ==
    IF IsType(g) THEN Returned(Registry) ELSE Returned(NotAccepted)

\* Faulty variant: a Mapper instance is returned as it is.
InstanceAcceptWith_MapperKept(g) ==
    IF g.kind \in {"manager", "mapper"} THEN Returned(g)
    ELSE IF g = MapperFunction THEN Returned(Class("ClassManager"))
    ELSE IF IsType(g)
        THEN IF IsMapperClass(g)
                THEN Returned(Class("ClassManager"))
                ELSE IF g.kind = "class" /\ g.class_ \in instrumented
                        THEN Returned(manager_of_class(g.class_))
                        ELSE Returned(NotAccepted)
    ELSE Returned(NotAccepted)

\* InstanceEvents.accept_with(target)
InstanceAcceptWith(g) ==
    IF g.kind = "manager" THEN Returned(g)
    ELSE IF g.kind = "mapper" THEN Returned(Manager(g.class_))
    ELSE IF g = MapperFunction THEN Returned(Class("ClassManager"))
    ELSE IF IsType(g)
        THEN IF IsMapperClass(g)
                THEN Returned(Class("ClassManager"))
                ELSE IF g.kind = "class" /\ g.class_ \in instrumented
                        THEN Returned(manager_of_class(g.class_))
                        ELSE Returned(NotAccepted)
    ELSE Returned(NotAccepted)

\* Faulty variant: every Mapper subclass resolves to the Mapper class.
MapperAcceptWith_SubclassToMapper(g) ==
    IF g = MapperFunction THEN Returned(Class("Mapper"))
    ELSE IF IsType(g)
        THEN IF IsMapperClass(g) THEN Returned(Class("Mapper")) ELSE class_mapper(g)
    ELSE Returned(g)

\* MapperEvents.accept_with(target)
MapperAcceptWith(g) ==
    IF g = MapperFunction THEN Returned(Class("Mapper"))
    ELSE IF IsType(g)
        THEN IF IsMapperClass(g) THEN Returned(g) ELSE class_mapper(g)
    ELSE Returned(g)

\* Faulty variant: the session_factory of a ScopedSession is returned unchecked.
SessionAcceptWith_Unchecked(g) ==
    IF g.kind = "scoped_session" THEN Returned(session_factory(g))
    ELSE IF IsType(g)
        THEN IF IsScopedSessionClass(g) THEN Returned(Session)
             ELSE IF IsSessionClass(g) THEN Returned(g)
             ELSE Returned(NotAccepted)
    ELSE IF g.kind = "session_instance" THEN Returned(g)
    ELSE Returned(NotAccepted)

\* Faulty variant: a ScopedSession resolves to the Session class, whatever its factory.
SessionAcceptWith_FactoryIgnored(g) ==
    IF g.kind = "scoped_session"
        THEN IF ~IsType(session_factory(g)) \/ ~IsSessionClass(session_factory(g))
                THEN Raised("ArgumentError")
                ELSE Returned(Session)
    ELSE IF IsType(g)
        THEN IF IsScopedSessionClass(g) THEN Returned(Session)
             ELSE IF IsSessionClass(g) THEN Returned(g)
             ELSE Returned(NotAccepted)
    ELSE IF g.kind = "session_instance" THEN Returned(g)
    ELSE Returned(NotAccepted)

\* SessionEvents.accept_with(target)
SessionAcceptWith(g) ==
    IF g.kind = "scoped_session"
        THEN IF ~IsType(session_factory(g)) \/ ~IsSessionClass(session_factory(g))
                THEN Raised("ArgumentError")
                ELSE Returned(session_factory(g))
    ELSE IF IsType(g)
        THEN IF IsScopedSessionClass(g) THEN Returned(Session)
             ELSE IF IsSessionClass(g) THEN Returned(g)
             ELSE Returned(NotAccepted)
    ELSE IF g.kind = "session_instance" THEN Returned(g)
    ELSE Returned(NotAccepted)

\* History record of an event.listen call: the event class asked, the target
\* given, what accept_with did, and the listen call that followed (0: none).
Accept(cls, g, r, n) ==
    [cls |-> cls, given |-> g, raised |-> r.raised, target |-> r.target, call |-> n]

\* event.listen goes on to cls.listen when accept_with returned a target that
\* carries listener collections.
Registers(r) == r.raised = "none" /\ r.target \in Targets

\* event.listen ends without a listen call.
NotListened(cls, g, r) ==
    /\ accepts' = Append(accepts, Accept(cls, g, r, 0))
    /\ last' = Outcome("listen", cls, r.raised, FALSE)
    /\ UNCHANGED <<listeners, instrumented, calls, active_history>>

Listened(cls, g, r) == accepts' = Append(accepts, Accept(cls, g, r, Len(calls) + 1))

(***************************************************************************)
(* The host dispatching an event to one registered listener: the           *)
(* positional arguments follow the hook's signature, an InstanceState in   *)
(* the "target" position.                                                  *)
(***************************************************************************)
DispatchArgs(sig, o) ==
    [i \in 1..(Len(sig) - 1) |->
        IF sig[i + 1] = "target" THEN InstanceState(o) ELSE Val("arg", sig[i + 1])]

DispatchKw(cls, identifier) ==
    IF cls = "MapperEvents" /\ identifier \in HasFlags THEN {{}, {"flag"}} ELSE {{}}

Dispatch(t, i, o, kw, beh) ==
    LET e == listeners[t][i]
        c == calls[e.call]
        arg == DispatchArgs(Sig(c.cls)[e.identifier], o)
    IN  /\ kw \in DispatchKw(c.cls, e.identifier)
        /\ inv' = [target |-> t, entry |-> e, cls |-> c.cls, arg |-> arg, kw |-> kw,
                   beh |-> beh, out |-> Apply(e.fn, arg, kw, beh)]
        /\ UNCHANGED <<listeners, instrumented, calls, active_history, last>>

(***************************************************************************)
(* Spec: listen and remove calls, and instrumentation of further classes.  *)
(***************************************************************************)
Init ==
    /\ listeners = [t \in Targets |-> <<>>]
    /\ instrumented = {"A", "B"}
    /\ calls = <<>>
    /\ active_history = [t \in {Attribute(c, k) : c \in Classes, k \in Keys} |-> FALSE]
    /\ last = Outcome("init", "", "none", FALSE)
    /\ pc = "idle"
    /\ inv = <<>>
    /\ accepts = <<>>

\* The inputs the listen calls of Spec are drawn from.
ListenIds ==
    [InstrumentationEvents |-> {"on_class_instrument"},
     InstanceEvents        |-> {"on_load"},
     MapperEvents          |-> {"on_before_insert"},
     SessionEvents         |-> {"on_before_commit"},
     AttributeEvents       |-> {"on_set"}]

ListenFns == {"f"}

\* (raw, retval)
ListenFlags == {<<FALSE, FALSE>>}

ListenKeys == {"x"}

\* The targets remove is tried on: those the listen calls of Spec use.
RemoveTargets(cls) ==
    CASE cls = "InstrumentationEvents" -> {Registry}
      [] cls = "InstanceEvents"        -> {Manager(c) : c \in instrumented}
      [] cls = "MapperEvents"          -> {Mapper(c) : c \in instrumented}
      [] cls = "SessionEvents"         -> {Session}
      [] cls = "AttributeEvents"       -> {Attribute(c, k) : c \in instrumented, k \in ListenKeys}

ListenInstrumentation ==
    /\ Len(calls) < MaxListens
    /\ \E identifier \in ListenIds["InstrumentationEvents"], fn \in ListenFns,
          propagate \in BOOLEAN :
            InstrumentationListen(Registry, identifier, fn, propagate)
    /\ UNCHANGED <<pc, inv, accepts>>

ListenInstance ==
    /\ Len(calls) < MaxListens
    /\ \E c \in instrumented, identifier \in ListenIds["InstanceEvents"],
          fn \in ListenFns, fl \in ListenFlags, propagate \in BOOLEAN :
            InstanceListen(Manager(c), identifier, fn, fl[1], propagate)
    /\ UNCHANGED <<pc, inv, accepts>>

ListenMapper ==
    /\ Len(calls) < MaxListens
    /\ \E c \in instrumented, identifier \in ListenIds["MapperEvents"],
          fn \in ListenFns, fl \in ListenFlags, propagate \in BOOLEAN :
            MapperListen(Mapper(c), identifier, fn, fl[1], fl[2], propagate)
    /\ UNCHANGED <<pc, inv, accepts>>

ListenSession ==
    /\ Len(calls) < MaxListens
    /\ \E identifier \in ListenIds["SessionEvents"], fn \in ListenFns :
            SessionListen(Session, identifier, fn, FALSE)
    /\ UNCHANGED <<pc, inv, accepts>>

ListenAttribute ==
    /\ Len(calls) < MaxListens
    /\ \E c \in instrumented, k \in ListenKeys, identifier \in ListenIds["AttributeEvents"],
          fn \in ListenFns, ah \in BOOLEAN, fl \in ListenFlags, propagate \in BOOLEAN :
            AttributeListen(Attribute(c, k), identifier, fn, ah, fl[1], fl[2], propagate)
    /\ UNCHANGED <<pc, inv, accepts>>

RemoveListener ==
    /\ \E cls \in EventClasses :
       \E identifier \in ListenIds[cls], target \in RemoveTargets(cls), fn \in ListenFns :
            Remove(cls, identifier, target, fn)
    /\ UNCHANGED <<pc, inv, accepts>>

InstrumentClass ==
    /\ \E c \in Classes : Instrument(c)
    /\ UNCHANGED <<pc, inv, accepts>>

Next ==
    \/ ListenInstrumentation
    \/ ListenInstance
    \/ ListenMapper
    \/ ListenSession
    \/ ListenAttribute
    \/ RemoveListener
    \/ InstrumentClass

Spec == Init /\ [][Next]_vars

(***************************************************************************)
(* SpecDispatch: one listen call with any hook and any flags, then one     *)
(* dispatch to a listener it registered, the user function behaving in any *)
(* of the ways of Behaviours.                                              *)
(***************************************************************************)
RegisterInstrumentation ==
    /\ pc = "idle"
    /\ \E identifier \in DOMAIN InstrumentationSig, fn \in Fns, propagate \in BOOLEAN :
            InstrumentationListen(Registry, identifier, fn, propagate)
    /\ pc' = "registered"
    /\ UNCHANGED <<inv, accepts>>

RegisterInstance ==
    /\ pc = "idle"
    /\ \E c \in instrumented, identifier \in DOMAIN InstanceSig, fn \in Fns,
          raw \in BOOLEAN, propagate \in BOOLEAN :
            InstanceListen(Manager(c), identifier, fn, raw, propagate)
    /\ pc' = "registered"
    /\ UNCHANGED <<inv, accepts>>

RegisterMapper ==
    /\ pc = "idle"
    /\ \E c \in instrumented, identifier \in DOMAIN MapperSig, fn \in Fns,
          raw \in BOOLEAN, retval \in BOOLEAN, propagate \in BOOLEAN :
            MapperListen(Mapper(c), identifier, fn, raw, retval, propagate)
    /\ pc' = "registered"
    /\ UNCHANGED <<inv, accepts>>

RegisterSession ==
    /\ pc = "idle"
    /\ \E identifier \in DOMAIN SessionSig, fn \in Fns :
            SessionListen(Session, identifier, fn, FALSE)
    /\ pc' = "registered"
    /\ UNCHANGED <<inv, accepts>>

RegisterAttribute ==
    /\ pc = "idle"
    /\ \E c \in instrumented, k \in Keys, identifier \in DOMAIN AttributeSig, fn \in Fns,
          ah \in BOOLEAN, raw \in BOOLEAN, retval \in BOOLEAN, propagate \in BOOLEAN :
            AttributeListen(Attribute(c, k), identifier, fn, ah, raw, retval, propagate)
    /\ pc' = "registered"
    /\ UNCHANGED <<inv, accepts>>

Fire ==
    /\ pc = "registered"
    /\ \E t \in Targets :
       \E i \in DOMAIN listeners[t], o \in Objects, kw \in {{}, {"flag"}},
          beh \in Behaviours :
            Dispatch(t, i, o, kw, beh)
    /\ pc' = "fired"
    /\ UNCHANGED accepts

NextDispatch ==
    \/ RegisterInstrumentation
    \/ RegisterInstance
    \/ RegisterMapper
    \/ RegisterSession
    \/ RegisterAttribute
    \/ Fire

SpecDispatch == Init /\ [][NextDispatch]_vars

(***************************************************************************)
(* SpecAccept: event.listen(target, identifier, fn) with the targets a     *)
(* user may give; the flags of listen keep their defaults.                 *)
(***************************************************************************)
InstrumentationGiven ==
    {Class(c) : c \in Classes \cup {"U", "type", "Mapper"}}
        \cup {MapperFunction, Manager("A"), SomeObject}

InstanceGiven ==
    {Class(c) : c \in Classes \cup {"U", "Mapper", "MyMapper", "ClassManager"}}
        \cup {Manager(c) : c \in instrumented} \cup {Mapper(c) : c \in instrumented}
        \cup {MapperFunction, Session, SomeObject}

MapperGiven ==
    {Class(c) : c \in Classes \cup {"U", "Mapper", "MyMapper"}}
        \cup {Mapper(c) : c \in instrumented} \cup {MapperFunction, SomeObject}

SessionGiven ==
    {ScopedSession(f) : f \in {"Session", "Sess", "U", "callable"}}
        \cup {Session, SessionSubclass, SessionInstance(""), SessionInstance("Sess"),
              Class("ScopedSession"), Class("U"), SomeObject}

AcceptInstrumentation ==
    /\ Len(accepts) < MaxListens
    /\ \E g \in InstrumentationGiven, identifier \in ListenIds["InstrumentationEvents"],
          fn \in Fns :
            LET r == InstrumentationAcceptWith(g)
            IN  IF Registers(r)
                    THEN /\ InstrumentationListen(r.target, identifier, fn, FALSE)
                         /\ Listened("InstrumentationEvents", g, r)
                    ELSE NotListened("InstrumentationEvents", g, r)
    /\ UNCHANGED <<pc, inv>>

AcceptInstance ==
    /\ Len(accepts) < MaxListens
    /\ \E g \in InstanceGiven, identifier \in ListenIds["InstanceEvents"], fn \in ListenFns :
            LET r == InstanceAcceptWith(g)
            IN  IF Registers(r)
                    THEN /\ InstanceListen(r.target, identifier, fn, FALSE, FALSE)
                         /\ Listened("InstanceEvents", g, r)
                    ELSE NotListened("InstanceEvents", g, r)
    /\ UNCHANGED <<pc, inv>>

AcceptMapper ==
    /\ Len(accepts) < MaxListens
    /\ \E g \in MapperGiven, identifier \in ListenIds["MapperEvents"], fn \in ListenFns :
            LET r == MapperAcceptWith(g)
            IN  IF Registers(r)
                    THEN /\ MapperListen(r.target, identifier, fn, FALSE, FALSE, FALSE)
                         /\ Listened("MapperEvents", g, r)
                    ELSE NotListened("MapperEvents", g, r)
    /\ UNCHANGED <<pc, inv>>

AcceptSession ==
    /\ Len(accepts) < MaxListens
    /\ \E g \in SessionGiven, identifier \in ListenIds["SessionEvents"], fn \in ListenFns :
            LET r == SessionAcceptWith(g)
            IN  IF Registers(r)
                    THEN /\ SessionListen(r.target, identifier, fn, FALSE)
                         /\ Listened("SessionEvents", g, r)
                    ELSE NotListened("SessionEvents", g, r)
    /\ UNCHANGED <<pc, inv>>

NextAccept ==
    \/ AcceptInstrumentation
    \/ AcceptInstance
    \/ AcceptMapper
    \/ AcceptSession

SpecAccept == Init /\ [][NextAccept]_vars

(***************************************************************************)
(* Properties.                                                             *)
(***************************************************************************)
\* The registrations on target t that listen call n made.
MadeBy(t, n) == {i \in DOMAIN listeners[t] : listeners[t][i].call = n}

\* The dispatch that was made went to a listener of event class cls.
Fired(cls) == pc = "fired" /\ inv.cls = cls

\* The listen call that registered the listener of the dispatch.
FiredCall == calls[inv.entry.call]

\* C1: remove(identifier, target, fn) of each of the five event classes raises
\* NotImplementedError, whether or not fn is registered on the target, and the
\* registered listeners (and everything else listen set up) are the same after
\* the call as before it.
C1_RemoveRaises ==
    [][last'.op = "remove" =>
        /\ last'.cls \in EventClasses
        /\ last'.raised = "NotImplementedError"
        /\ listeners' = listeners
        /\ calls' = calls
        /\ active_history' = active_history]_vars

\* A remove of a function that a listen call registered on that target.
C1_Witness ==
    /\ last.op = "remove"
    /\ last.cls = "MapperEvents"
    /\ last.registered
    /\ last.raised = "NotImplementedError"
    /\ \E t \in Targets : listeners[t] # <<>>

\* C2: a MapperEvents listener registered with retval=False (raw either way)
\* calls the user function exactly once per invocation and yields EXT_CONTINUE,
\* whatever the user function returns.
C2_RetvalFalseContinues ==
    (Fired("MapperEvents") /\ ~FiredCall.retval) =>
        /\ inv.out.ncalls = 1
        /\ ~inv.beh.raises => (inv.out.raised = "none" /\ inv.out.ret = EXT_CONTINUE)

\* The user function returned EXT_STOP to a raw=True, retval=False listener.
C2_Witness ==
    /\ Fired("MapperEvents")
    /\ ~FiredCall.retval
    /\ FiredCall.raw
    /\ ~inv.beh.raises
    /\ inv.beh.ret = EXT_STOP
    /\ inv.out.ret = EXT_CONTINUE

\* C3: a MapperEvents listener registered with retval=True (raw either way)
\* returns to the dispatcher exactly what the user function returned.
C3_RetvalTrueReturnsUserValue ==
    (Fired("MapperEvents") /\ FiredCall.retval /\ ~inv.beh.raises) =>
        /\ inv.out.ncalls = 1
        /\ inv.out.raised = "none"
        /\ inv.out.ret = inv.beh.ret

\* A raw=False, retval=True listener of on_translate_row handing back a value
\* that is neither EXT_CONTINUE nor EXT_STOP.
C3_Witness ==
    /\ Fired("MapperEvents")
    /\ FiredCall.retval
    /\ ~FiredCall.raw
    /\ inv.entry.identifier = "on_translate_row"
    /\ ~inv.beh.raises
    /\ inv.beh.ret = Val("other", "result")
    /\ inv.out.ret = Val("other", "result")

\* The MapperEvents hooks whose signature has a 'target' parameter, as C4 lists them.
C4_TargetHooks ==
    {"on_append_result", "on_populate_instance", "on_before_insert", "on_after_insert",
     "on_before_update", "on_after_update", "on_before_delete", "on_after_delete"}

\* C4: a MapperEvents listener registered with raw=False hands the user function
\* the mapped instance (state.obj()) in the 'target' position of the hooks that
\* have one and every other argument unchanged in its position; on the hooks
\* without 'target' it hands over all arguments unchanged; with raw=True the
\* InstanceState itself stays in the 'target' position.
C4_MapperTargetArgument ==
    Fired("MapperEvents") =>
        LET sig == MapperSig[inv.entry.identifier]
        IN  /\ (inv.entry.identifier \in C4_TargetHooks) <=> ("target" \in Range(sig))
            /\ inv.out.ncalls = 1
            /\ inv.out.kw = inv.kw
            /\ Len(inv.out.received) = Len(inv.arg)
            /\ \A i \in DOMAIN inv.arg :
                IF sig[i + 1] = "target"
                    THEN /\ inv.entry.identifier \in C4_TargetHooks
                         /\ inv.arg[i].kind = "state"
                         /\ inv.out.received[i] =
                                IF FiredCall.raw THEN inv.arg[i]
                                                 ELSE Val("instance", inv.arg[i].id)
                    ELSE inv.out.received[i] = inv.arg[i]

\* A raw=False listener of on_append_result received the instance fourth, the
\* result fifth and the flags.
C4_Witness ==
    /\ Fired("MapperEvents")
    /\ ~FiredCall.raw
    /\ inv.entry.identifier = "on_append_result"
    /\ inv.kw = {"flag"}
    /\ inv.out.received[4] = Val("instance", "o2")
    /\ inv.out.received[5] = Val("arg", "result")

\* C5: an AttributeEvents listener registered with retval=False returns the
\* 'value' argument it was invoked with, whatever the user function returns;
\* with retval=True it returns what the user function returned.
C5_AttributeReturn ==
    (Fired("AttributeEvents") /\ ~inv.beh.raises) =>
        /\ inv.out.ncalls = 1
        /\ inv.out.raised = "none"
        /\ inv.out.ret = IF FiredCall.retval THEN inv.beh.ret ELSE inv.arg[2]

\* A retval=False listener whose user function returned another value.
C5_Witness ==
    /\ Fired("AttributeEvents")
    /\ ~FiredCall.retval
    /\ ~inv.beh.raises
    /\ inv.beh.ret = Val("other", "result")
    /\ inv.out.ret = Val("arg", "value")

C7_AttributeExceptionPropagates ==
    (Fired("AttributeEvents") /\ inv.beh.raises) =>
        /\ inv.out.ncalls = 1
        /\ inv.out.raised = "ValueError"

\* A wrapped (raw=False, retval=False) listener of on_set whose user function raised.
C7_Witness ==
    /\ Fired("AttributeEvents")
    /\ inv.beh.raises
    /\ ~FiredCall.raw
    /\ ~FiredCall.retval
    /\ inv.entry.identifier = "on_set"
    /\ inv.entry.fn.wrap = "attribute"
    /\ inv.out.raised = "ValueError"

\* C8: AttributeEvents.listen with propagate=True establishes the listener on
\* the given attribute, on the attribute of the same name of every current
\* subclass and of every future subclass, using an additional listener for
\* instrumentation events; with propagate=False only on the given attribute.
C8_AttributePropagate ==
    \A n \in DOMAIN calls :
        calls[n].cls = "AttributeEvents" =>
            LET c == calls[n]
            IN  /\ \A t \in Targets \ {Registry} :
                    (MadeBy(t, n) # {}) <=>
                        \/ t = c.target
                        \/ /\ c.propagate
                           /\ t.kind = "attribute"
                           /\ t.key = c.target.key
                           /\ t.class_ \in instrumented
                           /\ c.target.class_ \in Ancestors(t.class_)
                /\ c.propagate => MadeBy(Registry, n) # {}

\* C9: MapperEvents.listen with propagate=True registers the listener on the
\* target mapper and on every descendant mapper, each exactly once per listen
\* call; with propagate=False on the target only.
C9_MapperPropagate ==
    \A n \in DOMAIN calls :
        calls[n].cls = "MapperEvents" =>
            LET c == calls[n]
            IN  \A t \in Targets :
                    /\ Cardinality(MadeBy(t, n)) =
                        IF \/ t = c.target
                           \/ /\ c.propagate
                              /\ t.kind = "mapper"
                              /\ t.class_ \in c.at
                              /\ c.target.class_ \in Ancestors(t.class_)
                            THEN 1 ELSE 0
                    /\ \A i \in MadeBy(t, n) :
                        /\ listeners[t][i].identifier = c.identifier
                        /\ listeners[t][i].fn.fn = c.fn

\* A propagate=True call on the mapper of A reached the mappers of B and of C,
\* and a propagate=False call on the mapper of A left them alone.
C9_Witness ==
    /\ \E n \in DOMAIN calls :
        /\ calls[n].cls = "MapperEvents"
        /\ calls[n].propagate
        /\ calls[n].target = Mapper("A")
        /\ MadeBy(Mapper("B"), n) # {}
        /\ MadeBy(Mapper("C"), n) # {}
    /\ \E n \in DOMAIN calls :
        /\ calls[n].cls = "MapperEvents"
        /\ ~calls[n].propagate
        /\ calls[n].target = Mapper("A")
        /\ calls[n].at = Classes

\* C10: InstanceEvents.listen with propagate=False registers the listener on
\* the target manager only and leaves the collections of all subclass managers
\* as they were; with propagate=True it also registers it on every subclass
\* manager, found recursively.
C10_InstancePropagate ==
    \A n \in DOMAIN calls :
        calls[n].cls = "InstanceEvents" =>
            LET c == calls[n]
            IN  \A t \in Targets :
                    /\ Cardinality(MadeBy(t, n)) =
                        IF \/ t = c.target
                           \/ /\ c.propagate
                              /\ t.kind = "manager"
                              /\ t.class_ \in c.at
                              /\ c.target.class_ \in Ancestors(t.class_)
                            THEN 1 ELSE 0
                    /\ \A i \in MadeBy(t, n) :
                        /\ listeners[t][i].identifier = c.identifier
                        /\ listeners[t][i].fn.fn = c.fn

\* With A, B and C instrumented, a propagate=False call on the manager of A left
\* the managers of B and C without it, and a propagate=True call reached C.
C10_Witness ==
    /\ \E n \in DOMAIN calls :
        /\ calls[n].cls = "InstanceEvents"
        /\ ~calls[n].propagate
        /\ calls[n].target = Manager("A")
        /\ calls[n].at = Classes
        /\ MadeBy(Manager("A"), n) # {}
        /\ MadeBy(Manager("B"), n) = {}
    /\ \E n \in DOMAIN calls :
        /\ calls[n].cls = "InstanceEvents"
        /\ calls[n].propagate
        /\ calls[n].target = Manager("A")
        /\ MadeBy(Manager("C"), n) # {}

\* C11: AttributeEvents.listen with active_history=True sets the target
\* attribute's dispatch.active_history flag in the step that registers the
\* listener; a listen with active_history=False leaves every flag as it was; no
\* step ever resets a flag that is set.
C11_ActiveHistorySticks ==
    [][/\ \A t \in DOMAIN active_history : active_history[t] => active_history'[t]
       /\ IF Len(calls') > Len(calls) /\ calls'[Len(calls')].cls = "AttributeEvents"
            THEN LET c == calls'[Len(calls')]
                 IN  /\ active_history' =
                            [t \in DOMAIN active_history |->
                                IF t = c.target /\ c.active_history
                                    THEN TRUE ELSE active_history[t]]
                     /\ \E i \in DOMAIN listeners'[c.target] :
                            listeners'[c.target][i].call = Len(calls')
            ELSE active_history' = active_history]_vars

\* A.x was listened on with active_history=True and after that with
\* active_history=False, and its flag is still set.
C11_Witness ==
    /\ Len(calls) = 2
    /\ calls[1].cls = "AttributeEvents" /\ calls[1].target = Attribute("A", "x")
    /\ calls[1].active_history
    /\ calls[2].cls = "AttributeEvents" /\ calls[2].target = Attribute("A", "x")
    /\ ~calls[2].active_history
    /\ active_history[Attribute("A", "x")]
    /\ ~active_history[Attribute("B", "x")]

\* The listeners the instrumentation registry calls for an instrumentation
\* event of class x: the registry holds one collection and hands the class to
\* every listener in it; listen kept nothing that tells the classes apart.
RegistryFires(x) == DOMAIN listeners[Registry]

\* issubclass(x, c) among the classes of the scenario; every class is a 'type'.
IsSubclassOf(x, c) == c = "type" \/ x = c \/ (x \in Classes /\ c \in Ancestors(x))

\* C12: an InstrumentationEvents listener established against a class c is
\* fired for the instrumentation events of c and of the subclasses of c and of
\* no other class, one established against 'type' is fired for the events of
\* every class, and a target that is not a class is not accepted (accept_with
\* returns None).
C12_InstrumentationScope ==
    \A n \in DOMAIN accepts :
        accepts[n].cls = "InstrumentationEvents" =>
            IF IsType(accepts[n].given)
                THEN /\ accepts[n].target # NotAccepted
                     /\ MadeBy(Registry, accepts[n].call) # {}
                     /\ \A x \in Classes \cup {"U"} :
                            (MadeBy(Registry, accepts[n].call) \subseteq RegistryFires(x))
                                <=> IsSubclassOf(x, accepts[n].given.class_)
                ELSE /\ accepts[n].target = NotAccepted
                     /\ accepts[n].raised = "none"
                     /\ accepts[n].call = 0

\* The targets that hold a listener registered by listen call n.
RegisteredOn(n) == {t \in Targets : MadeBy(t, n) # {}}

\* The event.listen calls of event class cls made so far.
Accepted(cls) == {n \in DOMAIN accepts : accepts[n].cls = cls}

\* C13: SessionEvents accepts a Session instance (the listener goes to that
\* instance only), the class made by sessionmaker (a Session subclass: to that
\* subclass), a ScopedSession whose session_factory is a Session class (to its
\* session_factory class) and the Session class itself (to Session, i.e. all
\* sessions); in each case accept_with returns a target, not None.
C13_SessionTargets ==
    \A n \in Accepted("SessionEvents") :
        LET a == accepts[n]
            expected ==
                CASE a.given.kind = "session_instance" -> a.given
                  [] a.given = SessionSubclass         -> SessionSubclass
                  [] a.given = Session                 -> Session
                  [] a.given.kind = "scoped_session"
                        /\ a.given.key \in {"Session", "Sess"} -> session_factory(a.given)
                  [] OTHER                             -> NotAccepted
        IN  expected # NotAccepted
                => /\ a.raised = "none"
                   /\ a.target # NotAccepted
                   /\ a.target = expected
                   /\ RegisteredOn(a.call) = {expected}

\* A ScopedSession over the sessionmaker class, then a Session instance.
C13_Witness ==
    /\ Len(accepts) = 2
    /\ accepts[1].cls = "SessionEvents" /\ accepts[1].given = ScopedSession("Sess")
    /\ accepts[1].target = SessionSubclass
    /\ Len(listeners[SessionSubclass]) = 1 /\ Len(listeners[Session]) = 0
    /\ accepts[2].cls = "SessionEvents" /\ accepts[2].given = SessionInstance("")
    /\ Len(listeners[SessionInstance("")]) = 1

\* C14: MapperEvents accepts a mapped class (resolved to that class's mapper
\* through class_mapper), a Mapper instance (resolved to itself), the Mapper
\* class and the mapper() function (both resolved to the Mapper class), and a
\* subclass of Mapper given as a type (resolved to that subclass itself); the
\* listener is registered on the resolved target.
C14_MapperTargets ==
    \A n \in Accepted("MapperEvents") :
        LET a == accepts[n]
            mapped == a.given.kind = "class" /\ a.given.class_ \in instrumented
            expected ==
                CASE a.given = MapperFunction    -> Class("Mapper")
                  [] a.given = Class("Mapper")   -> Class("Mapper")
                  [] a.given = Class("MyMapper") -> Class("MyMapper")
                  [] a.given.kind = "mapper"     -> a.given
                  [] mapped                      -> Mapper(a.given.class_)
                  [] OTHER                       -> NotAccepted
        IN  expected # NotAccepted
                => /\ a.raised = "none"
                   /\ a.target = expected
                   /\ RegisteredOn(a.call) = {expected}

\* A subclass of Mapper resolved to itself, then the mapped class A to its mapper.
C14_Witness ==
    /\ Len(accepts) = 2
    /\ accepts[1].cls = "MapperEvents" /\ accepts[1].given = Class("MyMapper")
    /\ accepts[1].target = Class("MyMapper")
    /\ Len(listeners[Class("MyMapper")]) = 1 /\ Len(listeners[Class("Mapper")]) = 0
    /\ accepts[2].cls = "MapperEvents" /\ accepts[2].given = Class("A")
    /\ accepts[2].target = Mapper("A")
    /\ Len(listeners[Mapper("A")]) = 1

\* C15: an InstanceEvents listener of on_first_init, registered with raw=False
\* or with raw=True, is called with the class manager and the class, as the
\* hook's signature (manager, cls) says, and the call completes without error.
C15_FirstInitArguments ==
    (Fired("InstanceEvents") /\ inv.entry.identifier = "on_first_init" /\ ~inv.beh.raises) =>
        /\ inv.arg = <<Val("arg", "manager"), Val("arg", "cls")>>
        /\ inv.out.ncalls = 1
        /\ inv.out.received = inv.arg
        /\ inv.out.raised = "none"

\* The session_factory of the ScopedSession g is no class, or a class that is
\* no subclass of Session.
BadFactory(g) == g.kind = "scoped_session" /\ g.key \in {"callable", "U"}

\* C16: SessionEvents.accept_with on a ScopedSession whose session_factory is
\* not a class, or is a class that is no subclass of Session, raises
\* ArgumentError instead of returning a target or None, and that call
\* registers no listener.
C16_ScopedSessionArgumentError ==
    [][(Len(accepts') > Len(accepts)
            /\ accepts'[Len(accepts')].cls = "SessionEvents"
            /\ BadFactory(accepts'[Len(accepts')].given))
        => /\ accepts'[Len(accepts')].raised = "ArgumentError"
           /\ accepts'[Len(accepts')].target = NotAccepted
           /\ accepts'[Len(accepts')].call = 0
           /\ last'.raised = "ArgumentError"
           /\ listeners' = listeners
           /\ calls' = calls]_vars

\* Both kinds of wrong session_factory were given and raised; nothing is
\* registered.
C16_Witness ==
    /\ Len(accepts) = 2
    /\ accepts[1].given = ScopedSession("callable") /\ accepts[1].raised = "ArgumentError"
    /\ accepts[2].given = ScopedSession("U") /\ accepts[2].raised = "ArgumentError"
    /\ \A t \in Targets : listeners[t] = <<>>

\* The rows of the table of C17, in their order; 0 when no row applies.
C17_Row(g) ==
    CASE g.kind = "manager"                                   -> 1
      [] g.kind = "mapper"                                    -> 2
      [] g = MapperFunction \/ g \in {Class("Mapper"), Class("MyMapper")} -> 3
      [] g.kind \in {"class", "session"}                      -> 4
      [] OTHER                                                -> 5

\* C17: InstanceEvents.accept_with resolves a ClassManager instance to itself,
\* a Mapper instance to its class manager, the mapper() function and any
\* subclass of Mapper given as a type to the ClassManager class, any other
\* class to its manager when manager_of_class finds one and to None otherwise,
\* and any other object to None; the first row that applies decides.
C17_InstanceTable ==
    \A n \in Accepted("InstanceEvents") :
        LET a == accepts[n]
            row == C17_Row(a.given)
        IN  /\ a.raised = "none"
            /\ row = 1 => a.target = a.given
            /\ row = 2 => a.target = Manager(a.given.class_)
            /\ row = 3 => a.target = Class("ClassManager")
            /\ row = 4 => a.target =
                              IF a.given.kind = "class" /\ a.given.class_ \in instrumented
                                  THEN Manager(a.given.class_) ELSE NotAccepted
            /\ row = 5 => a.target = NotAccepted
            /\ RegisteredOn(a.call) = {a.target} \ {NotAccepted}

\* The mapper of A resolved to the manager of A, then a Mapper subclass to
\* the ClassManager class.
C17_Witness ==
    /\ Len(accepts) = 2
    /\ accepts[1].cls = "InstanceEvents" /\ accepts[1].given = Mapper("A")
    /\ accepts[1].target = Manager("A")
    /\ Len(listeners[Manager("A")]) = 1 /\ Len(listeners[Mapper("A")]) = 0
    /\ accepts[2].cls = "InstanceEvents" /\ accepts[2].given = Class("MyMapper")
    /\ accepts[2].target = Class("ClassManager")
    /\ Len(listeners[Class("ClassManager")]) = 1

\* C19: InstrumentationEvents.accept_with resolves every class, whatever the
\* class, to the one instrumentation_registry, so the listeners registered
\* against different, unrelated classes or against 'type' all sit in the one
\* listener collection of the registry, and listen hands the user function to
\* it unwrapped.
C19_OneRegistry ==
    \A n \in Accepted("InstrumentationEvents") :
        IsType(accepts[n].given) =>
            /\ accepts[n].target = Registry
            /\ RegisteredOn(accepts[n].call) = {Registry}
            /\ \A i \in MadeBy(Registry, accepts[n].call) :
                    /\ listeners[Registry][i].fn = Plain(calls[accepts[n].call].fn)
                    /\ listeners[Registry][i].fn.wrap = "none"

\* Listeners for the unrelated classes A and U share the registry's collection.
C19_Witness ==
    /\ Len(accepts) = 2
    /\ accepts[1].cls = "InstrumentationEvents" /\ accepts[1].given = Class("A")
    /\ accepts[2].cls = "InstrumentationEvents" /\ accepts[2].given = Class("U")
    /\ Len(listeners[Registry]) = 2
    /\ listeners[Registry][1].fn = Plain("f")
    /\ listeners[Registry][2].fn = Plain("g")

\* Sequence s starts with sequence r.
StartsWith(s, r) == Len(r) <= Len(s) /\ SubSeq(s, 1, Len(r)) = r

\* C18: across the listen and remove calls of the five event classes the
\* registered listeners of every target never shrink: a listen call only adds
\* registrations, behind the ones the target holds, a remove call changes
\* nothing, and no call deletes or replaces a registration.
C18_ListenersOnlyGrow ==
    [][/\ listeners' # listeners =>
              \A t \in DOMAIN listeners :
                  listeners'[t] # listeners[t] => StartsWith(listeners'[t], listeners[t])
       /\ DOMAIN listeners' = DOMAIN listeners
       /\ last'.op = "remove" => listeners' = listeners
       /\ Len(calls') > Len(calls) => listeners' # listeners]_vars

\* Two listeners on the mapper of A, still both there after a remove call.
C18_Witness ==
    /\ last.op = "remove"
    /\ Len(calls) = 2
    /\ Len(listeners[Mapper("A")]) = 2
    /\ listeners[Mapper("A")][1].call = 1
    /\ listeners[Mapper("A")][2].call = 2

=============================================================================
